---- MODULE Spec2Model ----
(***************************************************************************)
(* The SharedPeopleDB durable object of src/src/index.ts: one in-memory    *)
(* collection of person records, hydrated lazily from a single storage     *)
(* key ("people"), mutated by the /add, /update and /delete routes and     *)
(* written back in full after every mutation.                              *)
(*                                                                         *)
(* Text that the code lower-cases or searches (names, emails) is a         *)
(* sequence of one-character strings, so that toLowerCase and includes are *)
(* computed.  Text the code only stores (gender, jobTitle) is a string.    *)
(* An optional field of a JSON body is <<>> when absent and <<v>> when     *)
(* present.                                                                *)
(*                                                                         *)
(* A request is a process: every await of fetch is a point where it        *)
(* suspends, and its position is req[r].pc.  Spec runs one request at a    *)
(* time (the serialization the hosting platform promises), SpecAny does so *)
(* over an empty or an already written store; SpecConc lets the requests   *)
(* interleave at every await; SpecRace is two Add requests racing on a     *)
(* Ready instance; SpecSessions is two sessions of the tool layer, one     *)
(* request each; SpecStats is Add and Stats requests whose ages and        *)
(* genders the histogram and the breakdown have to count; SpecFaults adds  *)
(* requests whose body is not JSON.  SpecSharedPeopleDatabase is the fetch *)
(* of the SharedPeopleDatabase class of src/unnamed/part_000, and          *)
(* SpecLookup puts one query to GET /search and to the lookup_person of    *)
(* src/unnamed/part_001.                                                   *)
(***************************************************************************)
EXTENDS Integers, Sequences, FiniteSets, TLC

\* ------------------------------------------------------------- bounds

\* Request slots that may be in flight together (SpecConc, SpecRace).
NReq == 2
\* Storage operations that may fail in one behaviour.
MaxFails == 1
\* Records the collection of the SharedPeopleDatabase variant may hold.
MaxPeople == 7
\* Characters of a query put to both lookups (SpecLookup).
MaxQuery == 3

\* ---------------------------------------------------- text and values

UpperChars == <<"A","B","C","D","E","F","G","H","I","J","K","L","M",
                "N","O","P","Q","R","S","T","U","V","W","X","Y","Z">>
LowerChars == <<"a","b","c","d","e","f","g","h","i","j","k","l","m",
                "n","o","p","q","r","s","t","u","v","w","x","y","z">>

\* The lower-case letter of every upper-case letter.
LowerOf ==
    [c \in {UpperChars[k] : k \in 1..Len(UpperChars)} |->
        LowerChars[CHOOSE k \in 1..Len(UpperChars) : UpperChars[k] = c]]

\* String.prototype.toLowerCase, one character.
LowerChar(c) == IF c \in DOMAIN LowerOf THEN LowerOf[c] ELSE c

\* String.prototype.toLowerCase.
toLowerCase(s) == [i \in 1..Len(s) |-> LowerChar(s[i])]

\* String.prototype.includes: t occurs in s as a contiguous substring.
includes(s, t) ==
    \E i \in 0..(Len(s) - Len(t)) : SubSeq(s, i + 1, i + Len(t)) = t

\* The least element of a non-empty set of integers.
MinOf(S) == CHOOSE x \in S : \A y \in S : x <= y

\* An optional JSON field: absent, or present with value v.
None == <<>>
Some(v) == <<v>>

\* The operand of ??: null or undefined.
Nullish(f) == f = None

\* a ?? b
Coalesce(f, dflt) == IF Nullish(f) THEN dflt ELSE f[1]

\* if (email): an absent string and the empty string are falsy.
Truthy(f) == f # None /\ f[1] # <<>>

\* A number of the program that stands for years (an age, a limit of an age
\* bracket).  Numbers are fixed-point, in halves, so that an age may lie
\* between two whole numbers: Years(25) + 1 is 25.5.
Years(n) == 2 * n

\* ------------------------------------------------------------ the seed

Seed == <<
    [id |-> 1,
     name |-> <<"S","a","r","a","h"," ","J","o","h","n","s","o","n">>,
     age |-> Years(28), gender |-> "Female", jobTitle |-> "Software Engineer",
     email |-> <<"s","a","r","a","h",".","j","o","h","n","s","o","n","@",
                 "t","e","c","h","c","o","r","p",".","c","o","m">>],
    [id |-> 2,
     name |-> <<"M","i","c","h","a","e","l"," ","C","h","e","n">>,
     age |-> Years(34), gender |-> "Male", jobTitle |-> "Product Manager",
     email |-> <<"m",".","c","h","e","n","@","i","n","n","o","v","a","t",
                 "e",".","i","o">>],
    [id |-> 3,
     name |-> <<"E","m","m","a"," ","R","o","d","r","i","g","u","e","z">>,
     age |-> Years(31), gender |-> "Female", jobTitle |-> "UX Designer",
     email |-> <<"e","m","m","a",".","r","@","d","e","s","i","g","n","s",
                 "t","u","d","i","o",".","c","o","m">>],
    [id |-> 4,
     name |-> <<"J","a","m","e","s"," ","W","i","l","s","o","n">>,
     age |-> Years(42), gender |-> "Male", jobTitle |-> "Data Scientist",
     email |-> <<"j","w","i","l","s","o","n","@","d","a","t","a","t","e",
                 "c","h",".","o","r","g">>],
    [id |-> 5,
     name |-> <<"A","l","e","x"," ","T","h","o","m","p","s","o","n">>,
     age |-> Years(26), gender |-> "Non-binary", jobTitle |-> "DevOps Engineer",
     email |-> <<"a","l","e","x",".","t","h","o","m","p","s","o","n","@",
                 "c","l","o","u","d","o","p","s",".","n","e","t">>] >>

\* ---------------------------------------------------------- the inputs

DanaName == <<"D","a","n","a"," ","L","e","e">>
DanaEmail == <<"d","a","n","a","@","x",".","c","o","m">>
DanaEmailUpper == <<"D","A","N","A","@","x",".","c","o","m">>
EveName == <<"E","v","e">>
EveEmail == <<"e","v","e","@","x",".","c","o","m">>
SarahEmailUpper == <<"S","A","R","A","H",".","J","O","H","N","S","O","N","@",
                     "t","e","c","h","c","o","r","p",".","c","o","m">>

\* Bodies of POST /add, as the add_person tool serializes them.
AddBodies == {
    [name |-> DanaName, age |-> Years(29), gender |-> "Female",
     jobTitle |-> "Analyst", email |-> DanaEmail],
    [name |-> DanaName, age |-> Years(29), gender |-> "Female",
     jobTitle |-> "Analyst", email |-> DanaEmailUpper],
    [name |-> EveName, age |-> Years(17), gender |-> "Female",
     jobTitle |-> "Intern", email |-> EveEmail] }

\* Bodies of PUT /update: an id and any subset of the fields.
UpdateBody(id, name, age, email) ==
    [id |-> id, name |-> name, age |-> age, gender |-> None,
     jobTitle |-> None, email |-> email]

UpdateBodies == {
    UpdateBody(1, None, Some(Years(30)), None),
    UpdateBody(2, None, None, Some(DanaEmailUpper)),
    UpdateBody(2, None, None, Some(DanaEmail)),
    UpdateBody(9, None, Some(Years(30)), None) }

\* Bodies of DELETE /delete.
DeleteBodies == { [id |-> 5], [id |-> 6], [id |-> 9] }

\* Values of the name parameter of GET /search; None is a missing parameter,
\* Some(<<>>) the empty string.
SearchNames == {
    Some(<<"S","A","R","A","H">>), Some(<<"S","O","N">>), Some(<<"z","z">>),
    Some(<<>>) }

\* Arguments the schemas of add_person and update_person refuse: an age
\* below 1 or above 120.
InvalidRequests == {
    [op |-> "add", body |-> [name |-> EveName, age |-> Years(0), gender |-> "Female",
                             jobTitle |-> "Intern", email |-> EveEmail]],
    [op |-> "add", body |-> [name |-> EveName, age |-> Years(121), gender |-> "Female",
                             jobTitle |-> "Intern", email |-> EveEmail]],
    [op |-> "update", body |-> UpdateBody(1, None, Some(Years(121)), None)] }

Requests ==
    {[op |-> "search", body |-> [name |-> n]] : n \in SearchNames}
    \cup {[op |-> "list", body |-> None], [op |-> "stats", body |-> None]}
    \cup {[op |-> "add", body |-> b] : b \in AddBodies}
    \cup {[op |-> "update", body |-> b] : b \in UpdateBodies}
    \cup {[op |-> "delete", body |-> b] : b \in DeleteBodies}

NoRequest == [op |-> "none", body |-> None]

\* A request body that is not JSON: request.json() rejects.
Malformed == [malformed |-> TRUE]

\* request.json() resolves for this body.
Parses(body) == "malformed" \notin DOMAIN body

\* Requests of the mutating routes with a body that is not JSON.  The tools
\* send JSON.stringify of their arguments, so such a request comes from
\* another caller of fetch.
MalformedRequests ==
    {[op |-> o, body |-> Malformed] : o \in {"add", "update", "delete"}}

\* Arguments of add_person that the schema accepts and /stats has to
\* count: an age below every bracket, an age of 25.5, which z.number()
\* admits, and a gender that is the name of an inherited accessor.
StatsBodies == {
    [name |-> EveName, age |-> Years(17), gender |-> "Female",
     jobTitle |-> "Intern", email |-> EveEmail],
    [name |-> <<"K","i","m">>, age |-> Years(25) + 1, gender |-> "Male",
     jobTitle |-> "Nurse", email |-> <<"k","i","m","@","x",".","c","o","m">>],
    [name |-> <<"P","a","t">>, age |-> Years(46), gender |-> "__proto__",
     jobTitle |-> "Pilot", email |-> <<"p","a","t","@","x",".","c","o","m">>] }

StatsRequests ==
    {[op |-> "add", body |-> b] : b \in StatsBodies}
    \cup {[op |-> "stats", body |-> None]}

\* What the tools are invoked with.
ToolInputs == Requests \cup InvalidRequests

Req == 1..NReq

\* ------------------------------------------------------------- state

VARIABLES
    people,         \* SharedPeopleDB.people
    initialized,    \* SharedPeopleDB.initialized
    blob,           \* ctx.storage, key "people": [present, data]
    wq,             \* storage.put calls not yet resolved, in call order
    req,            \* the requests: [pc, q, stored, out, resp]
    fails,          \* history: storage operations that failed
    seedPuts,       \* history: seed writes that succeeded
    writeFailed,    \* history: some storage.put has failed
    atEvict,        \* history: the collection of the Ready instance evicted
                    \* last, kept until the next instance is Ready and
                    \* starts its second request
    deleted,        \* history: ids removed by a Delete
    deletedNonMax,  \* history: ids removed while a larger id was present
    pendingFailed,  \* history: records added by an Add whose write failed
    netAdds         \* history: Adds that replied success minus Deletes that
                    \* replied success

vars == <<people, initialized, blob, wq, req, fails, seedPuts, writeFailed,
          atEvict, deleted, deletedNonMax, pendingFailed, netAdds>>

hist == <<seedPuts, atEvict, deleted, deletedNonMax, pendingFailed, netAdds>>

Absent == [present |-> FALSE, data |-> <<>>]
Stored(v) == [present |-> TRUE, data |-> v]

NoResp == [status |-> 0, tag |-> "None", data |-> None]
Resp(status, tag, data) == [status |-> status, tag |-> tag, data |-> data]

\* fetch rejected: initializeIfNeeded threw outside the try block.
Thrown == Resp(0, "Thrown", None)

IdleReq == [pc |-> "idle", q |-> NoRequest, stored |-> Absent,
            out |-> None, resp |-> NoResp]

InFlight(r) == req[r].pc \notin {"idle", "done"}

\* ------------------------------------------------- the routes' logic

\* Mutant of FindByName: the index of the last match.
FindByName_Last(ppl, searchTerm) ==
    LET hits == {i \in 1..Len(ppl) :
                    includes(toLowerCase(ppl[i].name), searchTerm)}
    IN IF hits = {} THEN 0 ELSE CHOOSE i \in hits : \A j \in hits : j <= i

\* this.people.find(p => p.name.toLowerCase().includes(searchTerm)):
\* the index of the first match, 0 when there is none.
FindByName(ppl, searchTerm) ==
    LET hits == {i \in 1..Len(ppl) :
                    includes(toLowerCase(ppl[i].name), searchTerm)}
    IN IF hits = {} THEN 0 ELSE MinOf(hits)

\* Mutant of FindByEmail: the emails are compared as written.
FindByEmail_CaseSensitive(ppl, email) ==
    LET hits == {i \in 1..Len(ppl) : ppl[i].email = email}
    IN IF hits = {} THEN 0 ELSE MinOf(hits)

\* this.people.find(p => p.email.toLowerCase() === email.toLowerCase())
FindByEmail(ppl, email) ==
    LET hits == {i \in 1..Len(ppl) :
                    toLowerCase(ppl[i].email) = toLowerCase(email)}
    IN IF hits = {} THEN 0 ELSE MinOf(hits)

\* Mutant of FindByEmailOther: the record being updated is not left out.
FindByEmailOther_AnyId(ppl, email, id) ==
    LET hits == {i \in 1..Len(ppl) :
                    toLowerCase(ppl[i].email) = toLowerCase(email)}
    IN IF hits = {} THEN 0 ELSE MinOf(hits)

\* this.people.find(p => p.email.toLowerCase() === email.toLowerCase()
\*                       && p.id !== id)
FindByEmailOther(ppl, email, id) ==
    LET hits == {i \in 1..Len(ppl) :
                    /\ toLowerCase(ppl[i].email) = toLowerCase(email)
                    /\ ppl[i].id # id}
    IN IF hits = {} THEN 0 ELSE MinOf(hits)

\* Mutant of FindIndexById: the last index when no record has the id.
FindIndexById_OrLast(ppl, id) ==
    LET hits == {i \in 1..Len(ppl) : ppl[i].id = id}
    IN IF hits = {} THEN Len(ppl) ELSE MinOf(hits)

\* this.people.findIndex(p => p.id === id), 0 for -1.
FindIndexById(ppl, id) ==
    LET hits == {i \in 1..Len(ppl) : ppl[i].id = id}
    IN IF hits = {} THEN 0 ELSE MinOf(hits)

\* Math.max over a non-empty argument list, left to right.
RECURSIVE MathMax(_)
MathMax(s) ==
    IF Len(s) = 1 THEN s[1]
    ELSE LET m == MathMax(Tail(s)) IN IF s[1] > m THEN s[1] ELSE m

\* Mutant of NewId: the number of records plus one.
NewId_Length(ppl) == Len(ppl) + 1

\* Mutant of NewId: the least positive id no record holds.
NewId_FirstFree(ppl) ==
    MinOf({n \in 1..(Len(ppl) + 1) : \A i \in 1..Len(ppl) : ppl[i].id # n})

\* Math.max(...this.people.map(p => p.id), 0) + 1
NewId(ppl) ==
    MathMax(Append([i \in 1..Len(ppl) |-> ppl[i].id], 0)) + 1

\* The person POST /add builds.
NewPerson(ppl, b) ==
    [id |-> NewId(ppl), name |-> b.name, age |-> b.age, gender |-> b.gender,
     jobTitle |-> b.jobTitle, email |-> b.email]

\* Mutant of UpdatedPerson: a field the body lacks is emptied.
UpdatedPerson_FromBody(cur, b) ==
    [id |-> cur.id,
     name |-> Coalesce(b.name, <<>>),
     age |-> Coalesce(b.age, 0),
     gender |-> Coalesce(b.gender, ""),
     jobTitle |-> Coalesce(b.jobTitle, ""),
     email |-> Coalesce(b.email, <<>>)]

\* The person PUT /update builds from the current one and the body.
UpdatedPerson(cur, b) ==
    [id |-> cur.id,
     name |-> Coalesce(b.name, cur.name),
     age |-> Coalesce(b.age, cur.age),
     gender |-> Coalesce(b.gender, cur.gender),
     jobTitle |-> Coalesce(b.jobTitle, cur.jobTitle),
     email |-> Coalesce(b.email, cur.email)]

\* this.people.filter(p => p.id !== id)
WithoutId(ppl, id) == SelectSeq(ppl, LAMBDA p : p.id # id)

\* this.people.map(p => p.name)
Names(ppl) == [i \in 1..Len(ppl) |-> ppl[i].name]

\* this.people.map(p => ({ id: p.id, name: p.name }))
AvailableIds(ppl) == [i \in 1..Len(ppl) |-> [id |-> ppl[i].id, name |-> ppl[i].name]]

\* The 400 reply naming the record that owns the email.
EmailExists(existing) ==
    Resp(400, "EmailExists", [name |-> existing.name, id |-> existing.id])

\* The 404 reply of /update and /delete.
IdNotFound(ppl) == Resp(404, "IdNotFound", AvailableIds(ppl))

\* GET /search
SearchResp(ppl, name) ==
    IF ~Truthy(name) THEN Resp(400, "NameRequired", None)
    ELSE LET i == FindByName(ppl, toLowerCase(name[1]))
         IN IF i = 0 THEN Resp(404, "NoMatch", Names(ppl))
            ELSE Resp(200, "Person", ppl[i])

\* Mutant of ListResp: the newest record first.
ListResp_NewestFirst(ppl) ==
    Resp(200, "People", [i \in 1..Len(ppl) |-> ppl[Len(ppl) + 1 - i]])

\* GET /list
ListResp(ppl) == Resp(200, "People", ppl)

\* this.people.filter(p => p.age >= lo && p.age <= hi).length
AgeCount(ppl, lo, hi) ==
    Len(SelectSeq(ppl, LAMBDA p : p.age >= lo /\ p.age <= hi))

\* this.people.filter(p => p.age >= 46).length
AgeCountFrom(ppl, lo) == Len(SelectSeq(ppl, LAMBDA p : p.age >= lo))

\* The reduce of /stats over an object literal:
\* acc[p.gender] = (acc[p.gender] || 0) + 1.  The key "__proto__" is the
\* accessor every object inherits: reading it gives the prototype, which is
\* truthy, and assigning it the text the sum then is does nothing, so no
\* entry is made.  (The other names an object inherits, constructor,
\* toString and so on, would make the entry a text; no request of this
\* module carries one.)
RECURSIVE GenderCount(_, _)
GenderCount(ppl, acc) ==
    IF ppl = <<>> THEN acc
    ELSE LET g == Head(ppl).gender
             n == IF g \in DOMAIN acc THEN acc[g] ELSE 0
         IN IF g = "__proto__"
            THEN GenderCount(Tail(ppl), acc)
            ELSE GenderCount(Tail(ppl),
                     [k \in DOMAIN acc \cup {g} |->
                         IF k = g THEN n + 1 ELSE acc[k]])

\* GET /stats (lastUpdated, the clock's reading, is left out).
StatsResp(ppl) ==
    Resp(200, "Stats",
         [totalPeople |-> Len(ppl),
          ageGroups |-> [a |-> AgeCount(ppl, Years(18), Years(25)),
                         b |-> AgeCount(ppl, Years(26), Years(35)),
                         c |-> AgeCount(ppl, Years(36), Years(45)),
                         d |-> AgeCountFrom(ppl, Years(46))],
          genderCount |-> GenderCount(ppl, <<>>)])

\* The catch block of fetch.
InternalError == Resp(500, "InternalServerError", None)

\* ------------------------------------------------------ initialization

\* Mutant of HydratedPeople: a stored collection without records counts as
\* nothing stored.
HydratedPeople_EmptyIsAbsent(stored) ==
    IF stored.present /\ stored.data # <<>> THEN stored.data ELSE Seed

\* Mutant of HydratedPeople: the default collection whatever is stored.
HydratedPeople_AlwaysSeed(stored) == Seed

\* this.people after hydration: the stored collection, or the default one.
\* An array, even an empty one, is truthy; only a missing key is not.
HydratedPeople(stored) == IF stored.present THEN stored.data ELSE Seed

\* Mutant of Begin: storage.get is issued whether or not the instance is
\* initialized.
Begin_AlwaysRead(r, q) ==
    /\ ~InFlight(r)
    /\ req' = [req EXCEPT ![r] = [IdleReq EXCEPT !.pc = "reading", !.q = q]]
    /\ atEvict' = IF initialized THEN None ELSE atEvict
    /\ UNCHANGED <<people, initialized, blob, wq, fails, seedPuts, writeFailed,
                   deleted, deletedNonMax, pendingFailed, netAdds>>

\* fetch is called: initializeIfNeeded runs up to its first await.  A Ready
\* instance returns at once and fetch resumes after the await; otherwise
\* storage.get is issued.
Begin(r, q) ==
    /\ ~InFlight(r)
    /\ req' = [req EXCEPT ![r] =
                 [IdleReq EXCEPT !.pc = IF initialized THEN "ready" ELSE "reading",
                                 !.q = q]]
    /\ atEvict' = IF initialized THEN None ELSE atEvict
    /\ UNCHANGED <<people, initialized, blob, wq, fails, seedPuts, writeFailed,
                   deleted, deletedNonMax, pendingFailed, netAdds>>

\* storage.get resolves with what the key holds.
GetResolve(r) ==
    /\ req[r].pc = "reading"
    /\ req' = [req EXCEPT ![r].pc = "gotStored", ![r].stored = blob]
    /\ UNCHANGED <<people, initialized, blob, wq, fails, writeFailed>>
    /\ UNCHANGED hist

\* storage.get rejects: initializeIfNeeded throws outside the try of fetch.
GetFail(r) ==
    /\ req[r].pc = "reading"
    /\ fails < MaxFails
    /\ fails' = fails + 1
    /\ req' = [req EXCEPT ![r].pc = "done", ![r].resp = Thrown]
    /\ UNCHANGED <<people, initialized, blob, wq, writeFailed>>
    /\ UNCHANGED hist

\* Mutant of Hydrate: initialized is set before the write of the default
\* collection is awaited.
Hydrate_FlagFirst(r) ==
    /\ req[r].pc = "gotStored"
    /\ people' = HydratedPeople(req[r].stored)
    /\ initialized' = TRUE
    /\ IF req[r].stored.present
       THEN /\ req' = [req EXCEPT ![r].pc = "ready"]
            /\ wq' = wq
       ELSE /\ req' = [req EXCEPT ![r].pc = "seeding"]
            /\ wq' = Append(wq, [r |-> r, val |-> people'])
    /\ UNCHANGED <<blob, fails, writeFailed>>
    /\ UNCHANGED hist

\* initializeIfNeeded resumes after storage.get: the stored collection is
\* taken and the instance is Ready, or the default collection is taken and
\* its write issued.
Hydrate(r) ==
    /\ req[r].pc = "gotStored"
    /\ people' = HydratedPeople(req[r].stored)
    /\ IF req[r].stored.present
       THEN /\ initialized' = TRUE
            /\ req' = [req EXCEPT ![r].pc = "ready"]
            /\ wq' = wq
       ELSE /\ initialized' = initialized
            /\ req' = [req EXCEPT ![r].pc = "seeding"]
            /\ wq' = Append(wq, [r |-> r, val |-> people'])
    /\ UNCHANGED <<blob, fails, writeFailed>>
    /\ UNCHANGED hist

\* The write of the default collection resolves; the instance is Ready.
SeedPutResolve(r) ==
    /\ req[r].pc = "seeding"
    /\ wq # <<>> /\ Head(wq).r = r
    /\ blob' = Stored(Head(wq).val)
    /\ wq' = Tail(wq)
    /\ initialized' = TRUE
    /\ seedPuts' = seedPuts + 1
    /\ req' = [req EXCEPT ![r].pc = "ready"]
    /\ UNCHANGED <<people, fails, writeFailed, atEvict, deleted, deletedNonMax,
                   pendingFailed, netAdds>>

\* The write of the default collection rejects: initializeIfNeeded throws
\* before it sets initialized.
SeedPutFail(r) ==
    /\ req[r].pc = "seeding"
    /\ wq # <<>> /\ Head(wq).r = r
    /\ fails < MaxFails
    /\ fails' = fails + 1
    /\ writeFailed' = TRUE
    /\ wq' = Tail(wq)
    /\ req' = [req EXCEPT ![r].pc = "done", ![r].resp = Thrown]
    /\ UNCHANGED <<people, initialized, blob>>
    /\ UNCHANGED hist

\* ------------------------------------------------------------ routes

\* GET /search
Search(r) ==
    /\ req[r].pc = "ready" /\ req[r].q.op = "search"
    /\ req' = [req EXCEPT ![r].pc = "done",
                          ![r].resp = SearchResp(people, req[r].q.body.name)]
    /\ UNCHANGED <<people, initialized, blob, wq, fails, writeFailed>>
    /\ UNCHANGED hist

\* GET /list
List(r) ==
    /\ req[r].pc = "ready" /\ req[r].q.op = "list"
    /\ req' = [req EXCEPT ![r].pc = "done", ![r].resp = ListResp(people)]
    /\ UNCHANGED <<people, initialized, blob, wq, fails, writeFailed>>
    /\ UNCHANGED hist

\* Mutant of Stats: the route stores the collection it has counted.
Stats_Persisting(r) ==
    /\ req[r].pc = "ready" /\ req[r].q.op = "stats"
    /\ req' = [req EXCEPT ![r].pc = "done", ![r].resp = StatsResp(people)]
    /\ blob' = Stored(people)
    /\ UNCHANGED <<people, initialized, wq, fails, writeFailed>>
    /\ UNCHANGED hist

\* GET /stats
Stats(r) ==
    /\ req[r].pc = "ready" /\ req[r].q.op = "stats"
    /\ req' = [req EXCEPT ![r].pc = "done", ![r].resp = StatsResp(people)]
    /\ UNCHANGED <<people, initialized, blob, wq, fails, writeFailed>>
    /\ UNCHANGED hist

\* POST /add, PUT /update, DELETE /delete: await request.json() rejects,
\* the catch block replies 500.
BodyFail(r) ==
    /\ req[r].pc = "ready" /\ req[r].q.op \in {"add", "update", "delete"}
    /\ ~Parses(req[r].q.body)
    /\ req' = [req EXCEPT ![r].pc = "done", ![r].resp = InternalError]
    /\ UNCHANGED <<people, initialized, blob, wq, fails, writeFailed>>
    /\ UNCHANGED hist

\* POST /add, PUT /update, DELETE /delete: await request.json() resolves.
ReadBody(r) ==
    /\ req[r].pc = "ready" /\ req[r].q.op \in {"add", "update", "delete"}
    /\ Parses(req[r].q.body)
    /\ req' = [req EXCEPT ![r].pc = "body"]
    /\ UNCHANGED <<people, initialized, blob, wq, fails, writeFailed>>
    /\ UNCHANGED hist

\* Mutant of AddApply: the record is appended without the email check.
AddApply_NoCheck(r) ==
    /\ req[r].pc = "body" /\ req[r].q.op = "add"
    /\ LET newPerson == NewPerson(people, req[r].q.body)
       IN /\ people' = Append(people, newPerson)
          /\ wq' = Append(wq, [r |-> r, val |-> people'])
          /\ req' = [req EXCEPT ![r].pc = "writing", ![r].out = Some(newPerson)]
    /\ UNCHANGED <<initialized, blob, fails, writeFailed>>
    /\ UNCHANGED hist

\* Mutant of AddApply: the record is appended before the email is looked
\* up among the records that were there.
AddApply_PushFirst(r) ==
    /\ req[r].pc = "body" /\ req[r].q.op = "add"
    /\ LET b == req[r].q.body
           i == FindByEmail(people, b.email)
           newPerson == NewPerson(people, b)
       IN /\ people' = Append(people, newPerson)
          /\ IF i # 0
             THEN /\ req' = [req EXCEPT ![r].pc = "done",
                                        ![r].resp = EmailExists(people[i])]
                  /\ wq' = wq
             ELSE /\ wq' = Append(wq, [r |-> r, val |-> people'])
                  /\ req' = [req EXCEPT ![r].pc = "writing",
                                        ![r].out = Some(newPerson)]
    /\ UNCHANGED <<initialized, blob, fails, writeFailed>>
    /\ UNCHANGED hist

\* POST /add from the body to the await of storage.put.
AddApply(r) ==
    /\ req[r].pc = "body" /\ req[r].q.op = "add"
    /\ LET b == req[r].q.body
           i == FindByEmail(people, b.email)
           newPerson == NewPerson(people, b)
       IN IF i # 0
          THEN /\ req' = [req EXCEPT ![r].pc = "done",
                                     ![r].resp = EmailExists(people[i])]
               /\ UNCHANGED <<people, wq>>
          ELSE /\ people' = Append(people, newPerson)
               /\ wq' = Append(wq, [r |-> r, val |-> people'])
               /\ req' = [req EXCEPT ![r].pc = "writing",
                                     ![r].out = Some(newPerson)]
    /\ UNCHANGED <<initialized, blob, fails, writeFailed>>
    /\ UNCHANGED hist

\* PUT /update from the body to the await of storage.put.
UpdateApply(r) ==
    /\ req[r].pc = "body" /\ req[r].q.op = "update"
    /\ LET b == req[r].q.body
           personIndex == FindIndexById(people, b.id)
           clash == IF Truthy(b.email)
                    THEN FindByEmailOther(people, b.email[1], b.id) ELSE 0
       IN IF personIndex = 0
          THEN /\ req' = [req EXCEPT ![r].pc = "done",
                                     ![r].resp = IdNotFound(people)]
               /\ UNCHANGED <<people, wq, pendingFailed>>
          ELSE IF clash # 0
          THEN /\ req' = [req EXCEPT ![r].pc = "done",
                                     ![r].resp = EmailExists(people[clash])]
               /\ UNCHANGED <<people, wq, pendingFailed>>
          ELSE LET updatedPerson == UpdatedPerson(people[personIndex], b)
               IN /\ people' = [people EXCEPT ![personIndex] = updatedPerson]
                  /\ wq' = Append(wq, [r |-> r, val |-> people'])
                  /\ req' = [req EXCEPT ![r].pc = "writing",
                                        ![r].out = Some(updatedPerson)]
                  /\ pendingFailed' = {p \in pendingFailed : p.id # b.id}
    /\ UNCHANGED <<initialized, blob, fails, writeFailed, seedPuts, atEvict,
                   deleted, deletedNonMax, netAdds>>

\* DELETE /delete from the body to the await of storage.put.
DeleteApply(r) ==
    /\ req[r].pc = "body" /\ req[r].q.op = "delete"
    /\ LET id == req[r].q.body.id
           personIndex == FindIndexById(people, id)
       IN IF personIndex = 0
          THEN /\ req' = [req EXCEPT ![r].pc = "done",
                                     ![r].resp = IdNotFound(people)]
               /\ UNCHANGED <<people, wq, deleted, deletedNonMax, pendingFailed>>
          ELSE /\ people' = WithoutId(people, id)
               /\ wq' = Append(wq, [r |-> r, val |-> people'])
               /\ req' = [req EXCEPT ![r].pc = "writing",
                                     ![r].out = Some(people[personIndex])]
               /\ deleted' = deleted \cup {id}
               /\ deletedNonMax' =
                    IF \E k \in 1..Len(people) : people[k].id > id
                    THEN deletedNonMax \cup {id} ELSE deletedNonMax
               /\ pendingFailed' = {p \in pendingFailed : p.id # id}
    /\ UNCHANGED <<initialized, blob, fails, writeFailed, seedPuts, atEvict,
                   netAdds>>

\* The success reply of a mutating route.
SuccessResp(op, out) ==
    Resp(200, CASE op = "add" -> "Added"
                [] op = "update" -> "Updated"
                [] OTHER -> "Deleted", out[1])

\* What a success reply of route op adds to the count of records.
NetOf(op) == CASE op = "add" -> 1 [] op = "delete" -> -1 [] OTHER -> 0

\* Mutant of PutResolve: the reply is sent although nothing was stored.
PutResolve_NoWrite(r) ==
    /\ req[r].pc = "writing"
    /\ wq # <<>> /\ Head(wq).r = r
    /\ wq' = Tail(wq)
    /\ req' = [req EXCEPT ![r].pc = "done",
                          ![r].resp = SuccessResp(req[r].q.op, req[r].out)]
    /\ netAdds' = netAdds + NetOf(req[r].q.op)
    /\ UNCHANGED <<people, initialized, blob, fails, writeFailed, seedPuts,
                   atEvict, deleted, deletedNonMax, pendingFailed>>

\* storage.put of a mutating route resolves: the route returns its reply.
PutResolve(r) ==
    /\ req[r].pc = "writing"
    /\ wq # <<>> /\ Head(wq).r = r
    /\ blob' = Stored(Head(wq).val)
    /\ wq' = Tail(wq)
    /\ req' = [req EXCEPT ![r].pc = "done",
                          ![r].resp = SuccessResp(req[r].q.op, req[r].out)]
    /\ netAdds' = netAdds + NetOf(req[r].q.op)
    /\ UNCHANGED <<people, initialized, fails, writeFailed, seedPuts, atEvict,
                   deleted, deletedNonMax, pendingFailed>>

\* Mutant of PutFail: the failed write leaves the instance Uninitialized.
PutFail_Uninitializing(r) ==
    /\ req[r].pc = "writing"
    /\ wq # <<>> /\ Head(wq).r = r
    /\ fails < MaxFails
    /\ fails' = fails + 1
    /\ writeFailed' = TRUE
    /\ wq' = Tail(wq)
    /\ req' = [req EXCEPT ![r].pc = "done", ![r].resp = InternalError]
    /\ initialized' = FALSE
    /\ people' = <<>>
    /\ pendingFailed' = IF req[r].q.op = "add"
                        THEN pendingFailed \cup {req[r].out[1]}
                        ELSE pendingFailed
    /\ UNCHANGED <<blob, seedPuts, atEvict, deleted, deletedNonMax, netAdds>>

\* storage.put of a mutating route rejects: the catch block replies 500.
PutFail(r) ==
    /\ req[r].pc = "writing"
    /\ wq # <<>> /\ Head(wq).r = r
    /\ fails < MaxFails
    /\ fails' = fails + 1
    /\ writeFailed' = TRUE
    /\ wq' = Tail(wq)
    /\ req' = [req EXCEPT ![r].pc = "done", ![r].resp = InternalError]
    /\ pendingFailed' = IF req[r].q.op = "add"
                        THEN pendingFailed \cup {req[r].out[1]}
                        ELSE pendingFailed
    /\ UNCHANGED <<people, initialized, blob, seedPuts, atEvict, deleted,
                   deletedNonMax, netAdds>>

\* The platform discards the idle instance; the next request constructs a
\* new one (people = [], initialized = false).  Storage is kept.
Evict ==
    /\ \A r \in Req : ~InFlight(r)
    /\ people' = <<>>
    /\ initialized' = FALSE
    /\ req' = [r \in Req |-> IdleReq]
    /\ atEvict' = IF initialized THEN Some(people) ELSE atEvict
    /\ pendingFailed' = {}
    /\ UNCHANGED <<blob, wq, fails, seedPuts, writeFailed, deleted,
                   deletedNonMax, netAdds>>

\* ---------------------------------------------------------- the tools

\* The tool call was refused by the schema: the handler did not run.
InvalidInput == Resp(0, "InvalidInput", None)

\* Mutant of AgeInRange: no upper limit.
AgeInRange_NoMax(age) == age >= Years(1)

\* z.number().min(1).max(120)
AgeInRange(age) == age >= Years(1) /\ age <= Years(120)

\* The age of the schemas of add_person (required) and update_person
\* (optional).
SchemaAccepts(q) ==
    CASE q.op = "add" -> AgeInRange(q.body.age)
      [] q.op = "update" -> Nullish(q.body.age) \/ AgeInRange(q.body.age[1])
      [] OTHER -> TRUE

\* A tool is invoked: arguments the schema accepts go to fetch; the others
\* are refused before the handler runs.
Invoke(r, q) ==
    IF SchemaAccepts(q)
    THEN Begin(r, q)
    ELSE /\ ~InFlight(r)
         /\ req' = [req EXCEPT ![r] =
                      [IdleReq EXCEPT !.pc = "done", !.q = q,
                                      !.resp = InvalidInput]]
         /\ UNCHANGED <<people, initialized, blob, wq, fails, writeFailed>>
         /\ UNCHANGED hist

\* this.people inside the tools: MyMCP declares and assigns no such field,
\* so the expression reads undefined.
McpPeople == None

\* this.people?.length || 'Unknown'; None stands for 'Unknown'.
RemainingPeople ==
    IF Nullish(McpPeople) \/ Len(McpPeople[1]) = 0
    THEN None ELSE Some(Len(McpPeople[1]))

\* What delete_person returns for a reply of DELETE /delete: the error, or
\* the deleted person and the remaining count.
delete_person(resp) ==
    IF resp.status # 200
    THEN [ok |-> FALSE, deletedPerson |-> None, remaining |-> None]
    ELSE [ok |-> TRUE, deletedPerson |-> Some(resp.data),
          remaining |-> RemainingPeople]

\* The name every tool resolves the durable object by.  The state of this
\* module is the state of the object of that name.
ObjectName == "global-people-db"

\* Mutant of getSharedDatabase: a name of its own for every session but the
\* first.
getSharedDatabase_PerSession(s) ==
    IF s = 1 THEN ObjectName ELSE "people-db-of-the-session"

\* MyMCP.getSharedDatabase in the session s: the object the tools of that
\* session call.
getSharedDatabase(s) == ObjectName

\* The reply of an object that no request has reached before: fetch on the
\* default collection.
FreshReply(q) ==
    LET b == q.body
    IN CASE q.op = "search" -> SearchResp(Seed, b.name)
         [] q.op = "list" -> ListResp(Seed)
         [] q.op = "stats" -> StatsResp(Seed)
         [] q.op = "add" ->
              IF FindByEmail(Seed, b.email) # 0
              THEN EmailExists(Seed[FindByEmail(Seed, b.email)])
              ELSE SuccessResp("add", Some(NewPerson(Seed, b)))
         [] q.op = "update" ->
              IF FindIndexById(Seed, b.id) = 0 THEN IdNotFound(Seed)
              ELSE IF Truthy(b.email)
                      /\ FindByEmailOther(Seed, b.email[1], b.id) # 0
              THEN EmailExists(Seed[FindByEmailOther(Seed, b.email[1], b.id)])
              ELSE SuccessResp("update",
                       Some(UpdatedPerson(Seed[FindIndexById(Seed, b.id)], b)))
         [] OTHER ->
              IF FindIndexById(Seed, b.id) = 0 THEN IdNotFound(Seed)
              ELSE SuccessResp("delete", Some(Seed[FindIndexById(Seed, b.id)]))

\* A tool of session s calls the object it resolves, once no other call is
\* being serviced.  A call to the object of this module starts fetch here;
\* a call to any other object is answered there.
SessionInvoke(s, q) ==
    /\ req[s].pc = "idle"
    /\ \A t \in Req : ~InFlight(t)
    /\ IF getSharedDatabase(s) = ObjectName
       THEN Begin(s, q)
       ELSE /\ req' = [req EXCEPT ![s] =
                         [IdleReq EXCEPT !.pc = "done", !.q = q,
                                         !.resp = FreshReply(q)]]
            /\ UNCHANGED <<people, initialized, blob, wq, fails, writeFailed>>
            /\ UNCHANGED hist

\* ------------------------------------------------------ specifications

Init ==
    /\ people = <<>>
    /\ initialized = FALSE
    /\ blob = Absent
    /\ wq = <<>>
    /\ req = [r \in Req |-> IdleReq]
    /\ fails = 0
    /\ seedPuts = 0
    /\ writeFailed = FALSE
    /\ atEvict = None
    /\ deleted = {}
    /\ deletedNonMax = {}
    /\ pendingFailed = {}
    /\ netAdds = 0

\* Every step of request r but its start.
Step(r) ==
    \/ GetResolve(r)
    \/ GetFail(r)
    \/ Hydrate(r)
    \/ SeedPutResolve(r)
    \/ SeedPutFail(r)
    \/ Search(r)
    \/ List(r)
    \/ Stats(r)
    \/ ReadBody(r)
    \/ AddApply(r)
    \/ UpdateApply(r)
    \/ DeleteApply(r)
    \/ PutResolve(r)
    \/ PutFail(r)

\* One request at a time: a request starts when none is in flight.
Next ==
    \/ \E q \in ToolInputs : Invoke(1, q)
    \/ Step(1)
    \/ Evict

Spec == Init /\ [][Next]_vars

\* A store that holds one record: what creating the collection and then
\* Delete(1), Delete(2), Delete(3), Delete(4) leave behind for a new
\* instance.
InitDrained ==
    /\ people = <<>>
    /\ initialized = FALSE
    /\ blob = Stored(<<Seed[5]>>)
    /\ wq = <<>>
    /\ req = [r \in Req |-> IdleReq]
    /\ fails = 0
    /\ seedPuts = 1
    /\ writeFailed = FALSE
    /\ atEvict = None
    /\ deleted = {1, 2, 3, 4}
    /\ deletedNonMax = {1, 2, 3, 4}
    /\ pendingFailed = {}
    /\ netAdds = -4

\* A new instance over an empty store or over the drained one.
InitAny == Init \/ InitDrained

SpecAny == InitAny /\ [][Next]_vars

\* The requests of the interleaved specification: one or two of each route.
ConcRequests ==
    {[op |-> "search", body |-> [name |-> Some(<<"z","z">>)]],
     [op |-> "list", body |-> None], [op |-> "stats", body |-> None],
     [op |-> "update", body |-> UpdateBody(1, None, Some(Years(30)), None)],
     [op |-> "delete", body |-> [id |-> 5]]}
    \cup {[op |-> "add", body |-> b] : b \in AddBodies}

\* Requests interleave at every await: nothing in fetch or in
\* initializeIfNeeded keeps a second request from starting or resuming
\* while a first one is suspended.  Each slot carries one request.
NextConc ==
    \/ \E r \in Req : \E q \in ConcRequests :
          req[r].pc = "idle" /\ Begin(r, q)
    \/ \E r \in Req : Step(r)

SpecConc == Init /\ [][NextConc]_vars

\* A Ready instance holding the default collection, as the first request
\* leaves it.
InitRace ==
    /\ people = Seed
    /\ initialized = TRUE
    /\ blob = Stored(Seed)
    /\ wq = <<>>
    /\ req = [r \in Req |-> IdleReq]
    /\ fails = 0
    /\ seedPuts = 1
    /\ writeFailed = FALSE
    /\ atEvict = None
    /\ deleted = {}
    /\ deletedNonMax = {}
    /\ pendingFailed = {}
    /\ netAdds = 0

\* Add requests only, each slot used once, interleaving at the body read
\* and at the durable write.
NextRace ==
    \E r \in Req :
        \/ \E b \in AddBodies :
              req[r].pc = "idle" /\ Begin(r, [op |-> "add", body |-> b])
        \/ ReadBody(r)
        \/ AddApply(r)
        \/ PutResolve(r)
        \/ PutFail(r)

SpecRace == InitRace /\ [][NextRace]_vars

\* Every session is one slot and issues one request; the object services
\* them one at a time.
NextSessions ==
    \/ \E s \in Req : \E q \in Requests : SessionInvoke(s, q)
    \/ \E s \in Req : Step(s)

SpecSessions == Init /\ [][NextSessions]_vars

\* add_person and database_stats on a Ready instance that holds the default
\* collection, one request at a time, every write succeeding.
NextStats ==
    \/ \E q \in StatsRequests : Invoke(1, q)
    \/ ReadBody(1)
    \/ AddApply(1)
    \/ PutResolve(1)
    \/ Stats(1)

SpecStats == InitRace /\ [][NextStats]_vars

\* ------------------------------------- the SharedPeopleDatabase variant

\* What the tools of the variant are invoked with: lookup_person,
\* list_people, database_stats and add_person, whose schema is the one of
\* the actor's add_person.
SharedPeopleDatabaseInputs ==
    {[op |-> "search", body |-> [name |-> n]] : n \in SearchNames}
    \cup {[op |-> "list", body |-> None], [op |-> "stats", body |-> None]}
    \cup {[op |-> "add", body |-> b] : b \in AddBodies}

\* POST /add of SharedPeopleDatabase from the body to the await of
\* storage.put: the new id, the push and the write, with no lookup of the
\* email in between.
SharedPeopleDatabase_add(r) ==
    /\ req[r].pc = "body" /\ req[r].q.op = "add"
    /\ LET b == req[r].q.body
           newId == MathMax(Append([i \in 1..Len(people) |-> people[i].id], 0)) + 1
           newPerson == [id |-> newId, name |-> b.name, age |-> b.age,
                         gender |-> b.gender, jobTitle |-> b.jobTitle,
                         email |-> b.email]
       IN /\ people' = people \o <<newPerson>>
          /\ wq' = Append(wq, [r |-> r, val |-> people'])
          /\ req' = [req EXCEPT ![r].pc = "writing", ![r].out = Some(newPerson)]
    /\ UNCHANGED <<initialized, blob, fails, writeFailed>>
    /\ UNCHANGED hist

\* GET /stats of SharedPeopleDatabase: the total alone.
SharedPeopleDatabase_stats(r) ==
    /\ req[r].pc = "ready" /\ req[r].q.op = "stats"
    /\ req' = [req EXCEPT ![r].pc = "done",
                          ![r].resp = Resp(200, "Stats",
                                           [totalPeople |-> Len(people)])]
    /\ UNCHANGED <<people, initialized, blob, wq, fails, writeFailed>>
    /\ UNCHANGED hist

\* A tool of the variant is invoked; no Add once the collection holds
\* MaxPeople records.
SharedPeopleDatabase_invoke(r, q) ==
    /\ q.op = "add" => Len(people) < MaxPeople
    /\ Invoke(r, q)

\* SharedPeopleDatabase.fetch, one request at a time, on an instance that
\* has hydrated from an empty store; MaxPeople caps the collection.
NextSharedPeopleDatabase ==
    \/ \E q \in SharedPeopleDatabaseInputs : SharedPeopleDatabase_invoke(1, q)
    \/ Search(1)
    \/ List(1)
    \/ SharedPeopleDatabase_stats(1)
    \/ ReadBody(1)
    \/ SharedPeopleDatabase_add(1)
    \/ PutResolve(1)

SpecSharedPeopleDatabase == InitRace /\ [][NextSharedPeopleDatabase]_vars

\* ------------------------------------------ the session-scoped variant

\* const PEOPLE_DATABASE: the five records of the default collection.
PEOPLE_DATABASE == Seed

\* lookup_person of the session-scoped variant: the first record whose
\* lower-cased name includes the lower-cased argument, or the names of all
\* records.  The argument is not tested for emptiness.
lookup_person(name) ==
    LET searchTerm == toLowerCase(name)
        hits == {i \in 1..Len(PEOPLE_DATABASE) :
                    includes(toLowerCase(PEOPLE_DATABASE[i].name), searchTerm)}
    IN IF hits = {}
       THEN [tag |-> "NoMatch", data |-> Names(PEOPLE_DATABASE)]
       ELSE [tag |-> "Person", data |-> PEOPLE_DATABASE[MinOf(hits)]]

\* The characters the queries are made of.
QueryChars == {"s", "O", "n", "a"}

\* Every string over QueryChars of at most MaxQuery characters, the empty
\* string included.
LookupQueries ==
    UNION {[1..n -> QueryChars] : n \in 0..MaxQuery}

\* One query is put to both: slot 1 is the request GET /search?name=query
\* at the actor, Ready with the default collection; slot 2 is the call of
\* the session-scoped lookup_person.
InitLookup ==
    \E n \in LookupQueries :
        /\ people = Seed
        /\ initialized = TRUE
        /\ blob = Stored(Seed)
        /\ wq = <<>>
        /\ req = [r \in Req |->
                    IF r \in {1, 2}
                    THEN [IdleReq EXCEPT !.pc = "ready",
                             !.q = [op |-> "search", body |-> [name |-> Some(n)]]]
                    ELSE IdleReq]
        /\ fails = 0
        /\ seedPuts = 1
        /\ writeFailed = FALSE
        /\ atEvict = None
        /\ deleted = {}
        /\ deletedNonMax = {}
        /\ pendingFailed = {}
        /\ netAdds = 0

\* The session-scoped lookup_person returns.
SessionLookup(r) ==
    /\ req[r].pc = "ready" /\ req[r].q.op = "search"
    /\ req' = [req EXCEPT ![r].pc = "done",
                          ![r].resp = lookup_person(req[r].q.body.name[1])]
    /\ UNCHANGED <<people, initialized, blob, wq, fails, writeFailed>>
    /\ UNCHANGED hist

NextLookup ==
    \/ Search(1)
    \/ SessionLookup(2)

SpecLookup == InitLookup /\ [][NextLookup]_vars

\* fetch called one request at a time by the tools' requests and by
\* requests whose body is not JSON; the instance is not discarded.
NextFaults ==
    \/ \E q \in Requests \cup MalformedRequests : Begin(1, q)
    \/ Step(1)
    \/ BodyFail(1)

SpecFaults == Init /\ [][NextFaults]_vars

\* ------------------------------------------------------------ claims

\* The ids, and the lower-cased emails, of a collection are pairwise distinct.
Unique(ppl) ==
    /\ Cardinality({ppl[i].id : i \in 1..Len(ppl)}) = Len(ppl)
    /\ Cardinality({toLowerCase(ppl[i].email) : i \in 1..Len(ppl)}) = Len(ppl)

\* C1: in every state reachable from the seed by Search, List, Add, Update,
\* Delete and Stats requests, no two distinct records of the collection (in
\* memory or stored) share an id or share an email up to letter case.
C1_UniqueIdsAndEmails == Unique(people) /\ Unique(blob.data)

\* An Add was refused because an Update had given its email, in another
\* letter case, to record 2, in a collection that had grown by an Add.
C1_Witness ==
    /\ req[1].pc = "done" /\ req[1].q.op = "add"
    /\ req[1].resp.tag = "EmailExists"
    /\ req[1].q.body.email = DanaEmail
    /\ Len(people) = 6
    /\ people[2].email = DanaEmailUpper

\* The request r has run the synchronous part of POST /add.
AddApplied(r) == req[r].q.op = "add" /\ req[r].pc \in {"writing", "done"}

\* The records of ppl whose email equals e up to letter case.
Owners(ppl, e) ==
    {i \in 1..Len(ppl) : toLowerCase(ppl[i].email) = toLowerCase(e)}

\* C2: of two Add requests in flight together whose emails are equal up to
\* letter case, at most one succeeds, whatever the interleaving of their
\* body reads and durable writes; once both have run, the collection holds
\* exactly one record for the email and the other request was refused with
\* the 400 reply naming that record's owner and id.
C2_RacingAddsOneWinner ==
    \A r1, r2 \in Req :
        (/\ r1 # r2
         /\ req[r1].q.op = "add" /\ req[r2].q.op = "add"
         /\ toLowerCase(req[r1].q.body.email) = toLowerCase(req[r2].q.body.email))
        => /\ ~(req[r1].resp.tag = "Added" /\ req[r2].resp.tag = "Added")
           /\ ~(req[r1].out # None /\ req[r2].out # None)
           /\ (AddApplied(r1) /\ AddApplied(r2)) =>
                 /\ Cardinality(Owners(people, req[r1].q.body.email)) = 1
                 /\ req[r1].out = None =>
                       /\ req[r1].resp.tag = "EmailExists"
                       /\ \A i \in Owners(people, req[r1].q.body.email) :
                             req[r1].resp.data =
                                [name |-> people[i].name, id |-> people[i].id]
                       /\ req[r2].out # None =>
                             req[r1].resp.data.id = req[r2].out[1].id

\* Request 2 was refused while request 1, which differs from it only in the
\* letter case of the email, is still awaiting its write.
C2_Witness ==
    /\ req[1].pc = "writing" /\ req[1].q.body.email = DanaEmail
    /\ req[2].pc = "done" /\ req[2].q.op = "add"
    /\ req[2].q.body.email = DanaEmailUpper
    /\ req[2].resp.tag = "EmailExists"

\* The reply of request r is the success reply of a mutating route.
Succeeded(r) ==
    req[r].pc = "done" /\ req[r].resp.tag \in {"Added", "Updated", "Deleted"}

\* rec is an element of the collection ppl.
InCollection(rec, ppl) == \E i \in 1..Len(ppl) : ppl[i] = rec

\* C3: a mutating route that replies success has written the whole
\* collection after mutating it and before replying: while the write is
\* awaited the mutated collection is what is being written and no reply
\* exists, and when the success reply exists the stored collection equals
\* the collection in memory, the mutation included.
C3_WrittenBeforeSuccess ==
    \A r \in Req :
        /\ req[r].pc = "writing" =>
              /\ req[r].resp = NoResp
              /\ wq # <<>> /\ Head(wq).val = people
        /\ Succeeded(r) =>
              /\ blob = Stored(people)
              /\ req[r].resp.tag \in {"Added", "Updated"} =>
                    InCollection(req[r].resp.data, blob.data)
              /\ req[r].resp.tag = "Deleted" =>
                    FindIndexById(blob.data, req[r].resp.data.id) = 0

\* An Update has replied success.
C3_Witness ==
    /\ Succeeded(1) /\ req[1].resp.tag = "Updated"
    /\ req[1].resp.data.age = Years(30)

\* C4: when the durable write of an Add fails, the request replies with a
\* failure and the record it added is not stored, neither when the request
\* returns nor through the write of a later request of the same instance.
C4_FailedAddNeverStored ==
    /\ \A p \in pendingFailed : ~InCollection(p, blob.data)
    /\ \A r \in Req :
          (req[r].pc = "done" /\ req[r].out # None /\ ~Succeeded(r))
             => req[r].resp = InternalError

\* A new instance, created after the eviction of a Ready one, has just
\* hydrated and is about to service its first request; no write has failed.
Rehydrating ==
    /\ atEvict # None
    /\ initialized
    /\ ~writeFailed
    /\ req[1].pc = "ready"

\* C5: an instance created after an eviction hydrates, record for record and
\* in order, the collection the evicted instance held after its last
\* successful operation (no write having failed); storage still holds that
\* collection, and the default collection was written once, not again.
C5_DurableAcrossEviction ==
    Rehydrating =>
        /\ people = atEvict[1]
        /\ blob = Stored(atEvict[1])
        /\ seedPuts = 1

\* A new instance has hydrated a collection of six records in which
\* record 1 carries an updated age.
C5_Witness ==
    /\ Rehydrating
    /\ Len(people) = 6
    /\ people[1].age = Years(30)
    /\ people[6].id = 6

\* The positions of a request inside initializeIfNeeded.
Hydrating == {"reading", "gotStored", "seeding"}

\* The positions of a request that fetch is servicing or has serviced (a
\* call the tool's schema refused never reached fetch).
Serviced(r) ==
    \/ req[r].pc \in {"ready", "body", "writing"}
    \/ req[r].pc = "done" /\ req[r].resp \notin {Thrown, InvalidInput}

\* C6: the first request on an Uninitialized instance reads the stored
\* collection; the instance becomes Ready either with the stored
\* collection and no write, or, nothing being stored, with the default
\* collection of five records, ids 1..5, written before the request is
\* serviced; a Ready instance never reads or hydrates again.
C6_LazyHydrationOnce ==
    /\ [](\A r \in Req :
             /\ Serviced(r) => initialized /\ blob.present
             /\ initialized => req[r].pc \notin Hydrating)
    /\ [][/\ \A r \in Req :
                (~initialized /\ ~InFlight(r) /\ req'[r].pc \notin {"idle", "done"})
                   => req'[r].pc = "reading"
          /\ \A r \in Req :
                (req[r].pc = "reading" /\ req'[r].pc = "gotStored")
                   => req'[r].stored = blob
          /\ (~initialized /\ initialized') =>
                IF blob.present
                THEN people' = blob.data /\ blob' = blob
                ELSE /\ people' = Seed
                     /\ blob' = Stored(Seed)
                     /\ [i \in 1..Len(Seed) |-> Seed[i].id] = <<1, 2, 3, 4, 5>>
          /\ (initialized /\ initialized') =>
                \A r \in Req :
                    req'[r].pc = "ready" => req[r].pc \in {"idle", "done", "ready"}
         ]_vars

\* The first request of the first instance is about to be serviced: the
\* default collection is in memory and stored.
C6_Witness ==
    /\ initialized /\ atEvict = None
    /\ req[1].pc = "ready"
    /\ people = Seed /\ blob = Stored(Seed)
    /\ seedPuts = 1

\* C7: however requests arriving at an Uninitialized instance interleave at
\* the awaits of hydration, no hydration overwrites the collection in memory
\* or the stored collection once it holds another request's successful
\* mutation: the record of every Add that replied success is in memory, and
\* is stored once no write is pending and none has failed.  (No request of
\* SpecConc deletes or updates an added record.)
C7_HydrationKeepsMutations ==
    \A r \in Req :
        (Succeeded(r) /\ req[r].resp.tag = "Added") =>
            /\ InCollection(req[r].resp.data, people)
            /\ (wq = <<>> /\ ~writeFailed) =>
                  InCollection(req[r].resp.data, blob.data)

\* C8: a failure of the storage read or of the write of the default
\* collection during hydration leaves the request without a reply (fetch
\* rejects) and the instance Uninitialized, and the next request reads the
\* store again.
C8_HydrationFailureRetries ==
    /\ [](\A r \in Req :
             (req[r].pc = "done" /\ req[r].resp = Thrown) => ~initialized)
    /\ [][\A r \in Req :
            /\ (req[r].pc \in Hydrating /\ req'[r].pc = "done")
                  => /\ req'[r].resp = Thrown
                     /\ ~initialized'
                     /\ blob' = blob
            /\ (req[r].pc = "done" /\ req[r].resp = Thrown /\ InFlight(r)')
                  => req'[r].pc = "reading"
         ]_vars

\* After the write of the default collection failed, the next request has
\* read the store, which still holds nothing.
C8_Witness ==
    /\ writeFailed /\ ~initialized
    /\ req[1].pc = "gotStored" /\ ~req[1].stored.present

\* The step in which request r appends its record (POST /add passes its
\* check).
AddAppends(r) ==
    /\ req[r].pc = "body" /\ req[r].q.op = "add"
    /\ req'[r].pc = "writing"

\* The ids of a collection.
IdsOf(ppl) == {ppl[i].id : i \in 1..Len(ppl)}

\* C9: an Add that succeeds gives its record the id one above the largest
\* id in the collection at that moment (1 for an empty collection), whatever
\* ids were given before: 6 on the default collection, and 6 again once
\* record 6 has been deleted.
C9_IdIsMaxPlusOne ==
    [][\A r \in Req :
          AddAppends(r) =>
             LET ids == IdsOf(people)
                 id == req'[r].out[1].id
             IN /\ people' = Append(people, req'[r].out[1])
                /\ ids = {} => id = 1
                /\ ids # {} => (id - 1) \in ids /\ \A x \in ids : x < id
                /\ ids = 1..5 => id = 6
      ]_vars

\* An Add has been given id 6 after record 6 was deleted.
C9_Witness ==
    /\ Len(people) = 6 /\ SubSeq(people, 1, 5) = Seed
    /\ req[1].q.op = "add" /\ req[1].pc = "writing"
    /\ req[1].out[1].id = 6
    /\ 6 \in deleted
    /\ IdsOf(people) = 1..6

\* C10, as claimed: an Add never assigns an id that was deleted while it was
\* not the largest id of the collection.
C10_NonMaxIdNeverReused ==
    [][\A r \in Req :
          AddAppends(r) => req'[r].out[1].id \notin deletedNonMax
      ]_vars

\* C10, amended: an Add assigns an id that belonged to a deleted record only
\* when no record with that id or a larger one is left in the collection.
C10_ReuseOnlyAboveAllIds ==
    [][\A r \in Req :
          (AddAppends(r) /\ req'[r].out[1].id \in deleted)
             => \A x \in IdsOf(people) : x < req'[r].out[1].id
      ]_vars

\* An Add has been given id 5, which was deleted while record 6 existed.
C10_Witness ==
    /\ req[1].q.op = "add" /\ req[1].pc = "writing"
    /\ req[1].out[1].id = 5
    /\ 5 \in deletedNonMax

\* The step in which request r runs the synchronous part of route op.
Applies(r, op) ==
    /\ req[r].pc = "body" /\ req[r].q.op = op
    /\ req'[r].pc # "body"

\* C11: an Add whose email equals, up to letter case, the email of a record
\* of the collection is refused with the 400 reply that names that record's
\* owner and id; the collection in memory is unchanged and no durable write
\* is issued or performed.
C11_AddConflictChangesNothing ==
    [][\A r \in Req :
          (Applies(r, "add") /\ Owners(people, req[r].q.body.email) # {})
             => /\ req'[r].pc = "done"
                /\ req'[r].resp.status = 400
                /\ req'[r].resp.tag = "EmailExists"
                /\ \E i \in Owners(people, req[r].q.body.email) :
                      req'[r].resp.data =
                         [name |-> people[i].name, id |-> people[i].id]
                /\ people' = people
                /\ wq' = wq
                /\ blob' = blob
      ]_vars

\* An Add with DANA@x.com was refused naming record 6, which holds
\* dana@x.com; memory and storage hold the same six records.
C11_Witness ==
    /\ req[1].pc = "done" /\ req[1].q.op = "add"
    /\ req[1].q.body.email = DanaEmailUpper
    /\ req[1].resp.tag = "EmailExists" /\ req[1].resp.data.id = 6
    /\ Len(people) = 6 /\ people[6].email = DanaEmail
    /\ blob = Stored(people)

\* The records of ppl, other than the one with the given id, whose email
\* equals e up to letter case.
OtherOwners(ppl, e, id) == {i \in Owners(ppl, e) : ppl[i].id # id}

\* C12: an Update of an existing record that supplies an email is refused
\* with the 400 reply, changing no record and writing nothing, when the
\* email equals, up to letter case, the email of a record with another id;
\* otherwise, and so when the email is the record's own in whatever letter
\* case, it is applied and its write is issued, and the success reply
\* carries the supplied email.
C12_UpdateEmailConflict ==
    /\ [](\A r \in Req :
             (req[r].pc = "done" /\ req[r].q.op = "update")
                => /\ req[r].resp.tag = "EmailExists"
                         => req[r].resp.data.id # req[r].q.body.id
                   /\ (req[r].resp.tag = "Updated" /\ Truthy(req[r].q.body.email))
                         => req[r].resp.data.email = req[r].q.body.email[1])
    /\ [][\A r \in Req :
             LET b == req[r].q.body
             IN (/\ Applies(r, "update")
                 /\ \E i \in 1..Len(people) : people[i].id = b.id
                 /\ Truthy(b.email))
                => IF OtherOwners(people, b.email[1], b.id) # {}
                   THEN /\ req'[r].pc = "done"
                        /\ req'[r].resp.status = 400
                        /\ req'[r].resp.tag = "EmailExists"
                        /\ \E i \in OtherOwners(people, b.email[1], b.id) :
                              req'[r].resp.data =
                                 [name |-> people[i].name, id |-> people[i].id]
                        /\ people' = people /\ wq' = wq /\ blob' = blob
                   ELSE /\ req'[r].pc = "writing"
                        /\ wq' = Append(wq, [r |-> r, val |-> people'])
                        /\ \E i \in 1..Len(people) :
                              /\ people[i].id = b.id
                              /\ people'[i].email = b.email[1]
         ]_vars

\* An Update of record 2 to dana@x.com was refused naming record 6, and
\* changed nothing.
C12_Witness ==
    /\ req[1].pc = "done" /\ req[1].q.op = "update"
    /\ req[1].q.body.id = 2 /\ req[1].q.body.email = Some(DanaEmail)
    /\ req[1].resp.tag = "EmailExists" /\ req[1].resp.data.id = 6
    /\ people[2].email = Seed[2].email
    /\ blob = Stored(people)

\* C13: an Update or a Delete that names an id no record holds is refused
\* with the 404 reply listing the id and name of every record, in order;
\* the collection in memory is unchanged and no durable write is issued or
\* performed.
C13_UnknownIdChangesNothing ==
    [][\A r \in Req :
          (/\ Applies(r, "update") \/ Applies(r, "delete")
           /\ req[r].q.body.id \notin IdsOf(people))
             => /\ req'[r].pc = "done"
                /\ req'[r].resp.status = 404
                /\ req'[r].resp.tag = "IdNotFound"
                /\ Len(req'[r].resp.data) = Len(people)
                /\ \A i \in 1..Len(people) :
                      req'[r].resp.data[i] =
                         [id |-> people[i].id, name |-> people[i].name]
                /\ people' = people
                /\ wq' = wq
                /\ blob' = blob
      ]_vars

\* An Update of id 9 was refused with the list of the six records there
\* are, the added one last.
C13_Witness ==
    /\ req[1].pc = "done" /\ req[1].q.op = "update" /\ req[1].q.body.id = 9
    /\ req[1].resp.tag = "IdNotFound"
    /\ Len(req[1].resp.data) = 6
    /\ req[1].resp.data[6] = [id |-> 6, name |-> DanaName]
    /\ blob = Stored(people)

\* The fields of a record that an Update may supply.
UpdatableFields == {"name", "age", "gender", "jobTitle", "email"}

\* C14: an Update that is applied replaces, in the record with the given
\* id, the fields the body supplies by the supplied values and nothing
\* else: the record keeps its id, its position and every field not
\* supplied, the collection keeps its length and every other record; the
\* success reply carries the record as updated.
C14_UpdateReplacesOnlySupplied ==
    /\ [](\A r \in Req :
             (Succeeded(r) /\ req[r].resp.tag = "Updated")
                => /\ req[r].resp.data.id = req[r].q.body.id
                   /\ InCollection(req[r].resp.data, people))
    /\ [][\A r \in Req :
             (Applies(r, "update") /\ req'[r].pc = "writing")
                => LET b == req[r].q.body
                   IN /\ Len(people') = Len(people)
                      /\ \A i \in 1..Len(people) :
                            IF people[i].id # b.id
                            THEN people'[i] = people[i]
                            ELSE /\ people'[i].id = people[i].id
                                 /\ \A f \in UpdatableFields :
                                       IF b[f] = None
                                       THEN people'[i][f] = people[i][f]
                                       ELSE people'[i][f] = b[f][1]
                                 /\ req'[r].out = Some(people'[i])
         ]_vars

\* An Update of the age of record 1 is applied in a collection of six:
\* record 1 differs from the default one in its age only, records 2..5 are
\* the default ones, record 6 is the added one.
C14_Witness ==
    /\ req[1].pc = "writing" /\ req[1].q.op = "update"
    /\ req[1].q.body = UpdateBody(1, None, Some(Years(30)), None)
    /\ Len(people) = 6
    /\ people[1] = [Seed[1] EXCEPT !.age = Years(30)]
    /\ SubSeq(people, 2, 5) = SubSeq(Seed, 2, 5)
    /\ people[6].id = 6 /\ people[6].name = DanaName

\* C15: a Delete that replied success has removed the record with the given
\* id, and the result of delete_person carries that record as it was and
\* the number of records that remain.
C15_DeleteReturnsRecordAndCount ==
    \A r \in Req :
        (Succeeded(r) /\ req[r].resp.tag = "Deleted")
           => /\ req[r].resp.data.id = req[r].q.body.id
              /\ FindIndexById(people, req[r].q.body.id) = 0
              /\ delete_person(req[r].resp).deletedPerson = Some(req[r].resp.data)
              /\ delete_person(req[r].resp).remaining = Some(Len(people))

\* C16: the collection a List returns has as many records as the default
\* collection, plus the Adds that replied success, minus the Deletes that
\* replied success: no other request, and no request that failed, changes
\* the length.
C16_LengthIsSeedPlusNet ==
    \A r \in Req :
        (req[r].pc = "done" /\ req[r].resp.tag = "People")
           => Len(req[r].resp.data) = Len(Seed) + netAdds

\* The text s contains the text t at some offset, letter case aside.
ContainsIgnoringCase(s, t) ==
    \E k \in 0..(Len(s) - Len(t)) :
        \A j \in 1..Len(t) : LowerChar(s[k + j]) = LowerChar(t[j])

\* The step in which request r, a Search with a non-empty query, is answered.
Searches(r) ==
    /\ req[r].pc = "ready" /\ req[r].q.op = "search"
    /\ Truthy(req[r].q.body.name)
    /\ req'[r].pc = "done"

\* C17: a Search with a non-empty query replies with the first record, in
\* the order of the collection, whose name contains the query letter case
\* aside; it replies NoMatch exactly when no name contains it, and that
\* reply carries the name of every record, in the order of the collection.
C17_SearchFirstMatch ==
    [][\A r \in Req :
          Searches(r) =>
             LET matches == {i \in 1..Len(people) :
                    ContainsIgnoringCase(people[i].name, req[r].q.body.name[1])}
                 reply == req'[r].resp
             IN /\ (matches = {}) <=> (reply.tag = "NoMatch")
                /\ matches # {} =>
                      /\ reply.status = 200
                      /\ \E i \in matches :
                            /\ \A j \in matches : i <= j
                            /\ reply.data = people[i]
                /\ matches = {} =>
                      /\ reply.status = 404
                      /\ Len(reply.data) = Len(people)
                      /\ \A i \in 1..Len(people) : reply.data[i] = people[i].name
      ]_vars

\* A Search for SON, which the names of records 1, 4 and 5 contain, has
\* replied with record 1.
C17_Witness ==
    /\ req[1].pc = "done" /\ req[1].q.op = "search"
    /\ req[1].q.body.name = Some(<<"S","O","N">>)
    /\ req[1].resp.tag = "Person" /\ req[1].resp.data = people[1]
    /\ people[1].id = 1
    /\ Len(people) >= 5
    /\ ContainsIgnoringCase(people[4].name, <<"S","O","N">>)
    /\ ContainsIgnoringCase(people[5].name, <<"S","O","N">>)

\* The mutation that request s was told succeeded shows in the collection
\* ppl.
Visible(s, ppl) ==
    IF req[s].resp.tag = "Deleted"
    THEN req[s].resp.data.id \notin IdsOf(ppl)
    ELSE InCollection(req[s].resp.data, ppl)

\* Request s1 was told its mutation succeeded, and no request but s1 and s2
\* has changed the collection.
LastMutationBy(s1, s2) ==
    /\ s1 # s2
    /\ Succeeded(s1)
    /\ \A t \in Req \ {s1, s2} : req[t].out = None

WithoutIndex(ppl, i) == SubSeq(ppl, 1, i - 1) \o SubSeq(ppl, i + 1, Len(ppl))

\* What the steps of a Ready instance do to the order of the collection: a
\* List replies with the collection as it is; an Add appends; an Update
\* leaves every id where it is; a Delete takes one record out and leaves
\* the others as they follow each other; no other step changes anything.
KeepsInsertionOrder ==
    /\ (initialized /\ initialized' /\ \A r \in Req : req'[r].pc # "writing")
          => people' = people
    /\ \A r \in Req :
        /\ (req[r].pc = "ready" /\ req[r].q.op = "list" /\ req'[r].pc = "done")
              => /\ req'[r].resp.status = 200
                 /\ req'[r].resp.data = people
        /\ (Applies(r, "add") /\ req'[r].pc = "writing")
              => /\ Len(people') = Len(people) + 1
                 /\ SubSeq(people', 1, Len(people)) = people
        /\ (Applies(r, "update") /\ req'[r].pc = "writing")
              => /\ Len(people') = Len(people)
                 /\ \A i \in 1..Len(people) : people'[i].id = people[i].id
        /\ (Applies(r, "delete") /\ req'[r].pc = "writing")
              => \E i \in 1..Len(people) :
                    /\ people[i].id = req[r].q.body.id
                    /\ people' = WithoutIndex(people, i)

\* The default records come first, as they follow each other in the default
\* collection, and every record was appended after the ones before it: the
\* ids grow along the collection.
InInsertionOrder(ppl) ==
    \A i, j \in 1..Len(ppl) :
        i < j => /\ ppl[i].id < ppl[j].id
                 /\ ppl[j].id <= Len(Seed) => ppl[i].name = Seed[ppl[i].id].name

AgesWithin(ppl) == \A i \in 1..Len(ppl) : ppl[i].age \in Years(1)..Years(120)

\* The arguments of request q carry an age below 1 or above 120.
AgeOutOfRange(q) ==
    \/ q.op = "add" /\ q.body.age \notin Years(1)..Years(120)
    \/ q.op = "update" /\ q.body.age # None /\ q.body.age[1] \notin Years(1)..Years(120)

\* C20: whatever add_person and update_person are invoked with, every
\* record in memory and in storage has an age from 1 to 120: an invocation
\* with an age outside that range is refused as invalid input, and the
\* collection, the pending writes and the stored collection are as they
\* were.
C20_AgeWithinRange ==
    /\ [](AgesWithin(people) /\ AgesWithin(blob.data))
    /\ [](\A r \in Req :
             AgeOutOfRange(req[r].q)
                => req[r].pc = "done" /\ req[r].resp = InvalidInput)
    /\ [][\A r \in Req :
             (AgeOutOfRange(req'[r].q) /\ req'[r] # req[r])
                => /\ people' = people
                   /\ initialized' = initialized
                   /\ wq' = wq
                   /\ blob' = blob
         ]_vars

\* An update_person of record 1 with age 121 was refused; record 1 keeps
\* the age 30 an earlier Update gave it, in memory and in storage.
C20_Witness ==
    /\ req[1].pc = "done" /\ req[1].resp = InvalidInput
    /\ req[1].q.op = "update" /\ req[1].q.body.age = Some(Years(121))
    /\ initialized /\ people[1].age = Years(30)
    /\ blob = Stored(people)

\* The sum of the values of a function with a finite domain.
RECURSIVE SumOf(_)
SumOf(f) ==
    IF DOMAIN f = {} THEN 0
    ELSE LET k == CHOOSE x \in DOMAIN f : TRUE
         IN f[k] + SumOf([x \in DOMAIN f \ {k} |-> f[x]])

\* The genders of the records of ppl.
GendersOf(ppl) == {ppl[i].gender : i \in 1..Len(ppl)}

\* The request r is a Stats that has returned.
StatsDone(r) == req[r].pc = "done" /\ req[r].q.op = "stats"

\* C21: a Stats never fails; it reports as total the number of records of
\* the collection and as gender breakdown one count for every gender some
\* record has, the number of records with that gender, so that the counts
\* sum to the total; on the default collection it reports 5, with Female 2,
\* Male 2 and Non-binary 1.
C21_StatsTotalAndGenders ==
    \A r \in Req :
        StatsDone(r) =>
            /\ req[r].resp.tag = "Stats" /\ req[r].resp.status = 200
            /\ LET s == req[r].resp.data
               IN /\ s.totalPeople = Len(people)
                  /\ DOMAIN s.genderCount = GendersOf(people)
                  /\ \A g \in DOMAIN s.genderCount :
                        s.genderCount[g] =
                           Cardinality({i \in 1..Len(people) : people[i].gender = g})
                  /\ SumOf(s.genderCount) = s.totalPeople
                  /\ people = Seed =>
                        /\ s.totalPeople = 5
                        /\ s.genderCount =
                              [g \in {"Female", "Male", "Non-binary"} |->
                                  IF g = "Non-binary" THEN 1 ELSE 2]

\* The number of records of ppl aged 18 or more.
Adults(ppl) == Cardinality({i \in 1..Len(ppl) : ppl[i].age >= Years(18)})

\* C27: the age histogram of a Stats counts every record aged 18 or more in
\* exactly one of its four buckets and no record aged under 18: the four
\* counts sum to the number of records aged 18 or more, which can be less
\* than the total.
C27_BucketsCoverAdults ==
    \A r \in Req :
        (StatsDone(r) /\ req[r].resp # Thrown) =>
            LET s == req[r].resp.data
                g == s.ageGroups
            IN /\ g.a + g.b + g.c + g.d = Adults(people)
               /\ g.a + g.b + g.c + g.d <= s.totalPeople

\* C22: in the SharedPeopleDatabase variant no two records of the
\* collection have the same email, and an Add whose email a record already
\* has is rejected: a record an Add has created is the only one with its
\* email.
C22_VariantAddKeepsEmailsUnique ==
    /\ \A i, j \in 1..Len(people) :
          i # j => people[i].email # people[j].email
    /\ \A r \in Req :
          (req[r].pc = "done" /\ req[r].q.op = "add"
             /\ req[r].resp.tag = "Added") =>
              \A i \in 1..Len(people) :
                  people[i].email = req[r].resp.data.email
                      => people[i].id = req[r].resp.data.id

\* C23: over the default collection the session-scoped lookup_person and
\* the Search of the actor have the same outcome for every query, the
\* empty string included: the same record, or no match with the same names.
C23_SessionLookupAgreesWithSearch ==
    (req[1].pc = "done" /\ req[2].pc = "done") =>
        /\ req[1].resp.tag = req[2].resp.tag
        /\ req[1].resp.data = req[2].resp.data

\* Request r takes the step from the start of a read-only route to its
\* reply.
Reads(r) ==
    /\ req[r].pc = "ready" /\ req[r].q.op \in {"search", "list", "stats"}
    /\ req'[r].pc = "done"

\* C24: on a Ready instance a Search, a List or a Stats changes neither the
\* collection in memory nor the stored collection and starts no durable
\* write, whether it replies a match, NoMatch, the empty-query error, the
\* list or the statistics; the instance stays Ready.
C24_ReadsChangeNothing ==
    [][\A r \in Req :
          Reads(r) =>
              /\ initialized /\ initialized'
              /\ people' = people
              /\ blob' = blob
              /\ wq' = wq
              /\ req'[r].resp.tag \in {"Person", "NoMatch", "NameRequired",
                                       "People", "Stats"}]_vars

\* An empty query has been refused on an instance whose collection in
\* memory has an added record that the store lacks, and both are as they
\* were.
C24_Witness ==
    /\ req[1].pc = "done" /\ req[1].q.op = "search"
    /\ req[1].resp.tag = "NameRequired"
    /\ initialized /\ writeFailed
    /\ Len(people) = 6 /\ Len(blob.data) = 5 /\ wq = <<>>

FailsInside(r) ==
    /\ req[r].pc # "done"
    /\ req'[r].pc = "done" /\ req'[r].resp = InternalError

\* C26: a failure inside an operation on a Ready instance, a durable write
\* that fails or a request body that is not JSON, becomes the one error
\* reply of that operation and the instance stays Ready: the step that
\* replies the error changes neither the collection in memory nor the
\* store, no step makes a Ready instance Uninitialized, a request with a
\* malformed body gets the error reply and nothing else, a request that
\* starts on a Ready instance does not hydrate, and a List returns the
\* collection in memory.
C26_FailureKeepsReady ==
    [][\A r \in Req :
          /\ FailsInside(r) =>
                /\ initialized /\ initialized'
                /\ people' = people /\ blob' = blob
          /\ initialized => initialized'
          /\ (req[r].pc = "ready" /\ ~Parses(req[r].q.body)
                /\ req'[r] # req[r]) =>
                /\ FailsInside(r)
                /\ wq' = wq
          /\ (initialized /\ ~InFlight(r) /\ InFlight(r)') =>
                req'[r].pc = "ready"
          /\ (req[r].pc = "ready" /\ req[r].q.op = "list"
                /\ req'[r].pc = "done") =>
                req'[r].resp = ListResp(people)]_vars

\* After an Add whose write failed, a request with a malformed body has
\* got the error reply; the instance is Ready and holds the six records,
\* the store five.
C26_Witness ==
    /\ req[1].pc = "done" /\ req[1].q.op = "update"
    /\ ~Parses(req[1].q.body)
    /\ req[1].resp = InternalError
    /\ initialized /\ writeFailed
    /\ Len(people) = 6 /\ Len(blob.data) = 5

====
